---- MODULE Spec2Model ----
(***************************************************************************)
(* WardrobeSuite: the scan-to-queue pipeline (backend/app/routers/scan.py),*)
(* the review queue operations (backend/app/routers/review.py) and the     *)
(* analytics aggregator (backend/app/emailparser.py), over the tables of   *)
(* backend/app/models.py.                                                  *)
(*                                                                         *)
(* Optional (nullable) values are tuples: None is <<>>, a present value x  *)
(* is <<x>>.  Item names are tuples of one-character strings so that       *)
(* strip() and lower() are computed.  Times are integer ticks, DayLen      *)
(* ticks to a day; strftime("%Y/%m/%d") keeps the day only.                *)
(***************************************************************************)
EXTENDS Integers, Sequences, FiniteSets, TLC

\* ------------------------------------------------------------------ bounds
\* the work the environment does in a run: an initial scan counts two; an
\* incremental scan, an approve, reject or list request, a clock tick and a
\* message listed again by the provider count one each
MaxWork == 4
MaxRepeats == 1
\* clock ticks to a day
DayLen == 2

\* ------------------------------------------------------- program constants
CONFIDENCE_THRESHOLD == 65
max_results == 50

allowed_days == {30, 90, 180}

\* the time the run starts at: the last tick of day 200
Now0 == 200 * DayLen + (DayLen - 1)

\* ------------------------------------------------------------ optionals
None == <<>>
Some(x) == <<x>>
Get(o) == o[1]

Users == {"u1", "u2"}

\* the approve requests in flight at a time
MaxApproving == 2

\* an account whose mailbox holds more matching messages than one page of the
\* provider's listing
BulkUser == "u3"

Accounts == Users \cup {BulkUser}

\* ------------------------------------------------- Python helper semantics
Uppers == <<"A","B","C","D","E","F","G","H","I","J","K","L","M","N","O","P","Q","R","S","T","U","V","W","X","Y","Z">>
Lowers == <<"a","b","c","d","e","f","g","h","i","j","k","l","m","n","o","p","q","r","s","t","u","v","w","x","y","z">>
Whitespace == {" ", "\t", "\n"}

\* str.lower() on one character
LowerChar(c) ==
  IF \E i \in 1..26 : Uppers[i] = c
  THEN Lowers[CHOOSE i \in 1..26 : Uppers[i] = c]
  ELSE c

\* str.lower()
Lower(s) == [i \in 1..Len(s) |-> LowerChar(s[i])]

RECURSIVE LStrip(_)
LStrip(s) == IF s # <<>> /\ Head(s) \in Whitespace THEN LStrip(Tail(s)) ELSE s

RECURSIVE RStrip(_)
RStrip(s) ==
  IF s # <<>> /\ s[Len(s)] \in Whitespace THEN RStrip(SubSeq(s, 1, Len(s) - 1)) ELSE s

\* str.strip()
Strip(s) == RStrip(LStrip(s))

\* the name as it is
normalized_name_exact(name) == name

\* normalized_name = item.item_name.strip().lower()
normalized_name(name) == Lower(Strip(name))

\* a or b, on Optional[int]: None and 0 are falsy
OrInt(a, b) == IF a # None /\ Get(a) # 0 THEN a ELSE b

\* a or b, on Optional[str] (also names): None and the empty string are falsy
OrStr(a, b, empty) == IF a # None /\ Get(a) # empty THEN a ELSE b

\* whole dollars only
price_to_cents_dollars(mills) == (mills \div 1000) * 100

\* int(round(item.price * 100)), the price given in thousandths of a dollar;
\* round() rounds half to even
price_to_cents(mills) ==
  LET q == mills \div 10
      r == mills % 10
  IN  IF r < 5 THEN q
      ELSE IF r > 5 THEN q + 1
      ELSE IF q % 2 = 0 THEN q ELSE q + 1

\* datetime.fromisoformat on "YYYY-MM-DD", the string given as <<y, m, d>>:
\* the parsed date, or None where it raises ValueError
DaysIn(y, m) ==
  IF m \in {4, 6, 9, 11} THEN 30
  ELSE IF m = 2 THEN (IF y % 4 = 0 /\ (y % 100 # 0 \/ y % 400 = 0) THEN 29 ELSE 28)
  ELSE 31

fromisoformat(s) ==
  IF Len(s) = 3 /\ s[1] \in 1..9999 /\ s[2] \in 1..12 /\ s[3] \in 1..DaysIn(s[1], s[2])
  THEN Some(s) ELSE None

\* strftime("%Y/%m/%d"): the day a time falls on
strftime(t) == t \div DayLen

\* ----------------------------------------------- the external collaborators
\* Mailbox messages.  m1 is in both users' mailboxes, 60 days old, with one
\* image hint; m2 reached u1's mailbox today and carries one image hint.
Email(id, date, images) ==
  [message_id |-> id, thread_id |-> id, date |-> date, image_urls |-> images]

\* the messages of the bulk account besides m1 and m2: notices ten days old
\* that match the query and hold no purchase, as many as fill a page together
\* with m2
BulkIds == {"b" \o ToString(k) : k \in 1..(max_results - 1)}

mailbox ==
  [u \in Accounts |->
     IF u = "u1"
     THEN {Email("m1", Now0 - 60 * DayLen, <<"img0">>), Email("m2", Now0, <<"img1">>)}
     ELSE IF u = "u2"
     THEN {Email("m1", Now0 - 60 * DayLen, <<"img0">>)}
     ELSE {Email("m1", Now0 - 60 * DayLen, <<"img0">>), Email("m2", Now0, <<"img1">>)}
            \cup {Email(b, Now0 - 10 * DayLen, <<>>) : b \in BulkIds}]

MsgIds == {"m1", "m2"} \cup BulkIds

\* ExtractedItem values the extraction service can return
Tee ==
  [item_name |-> <<"T","e","e">>, price |-> Some(49990), purchased_at |-> Some(<<2024, 1, 5>>),
   image_url |-> Some("img0"), category_guess |-> Some("Tops"), confidence |-> 90, is_clothing |-> TRUE]

TeeAgain ==
  [item_name |-> <<" ","t","e","e">>, price |-> None, purchased_at |-> None,
   image_url |-> None, category_guess |-> Some("Tops"), confidence |-> 65, is_clothing |-> TRUE]

Hat ==
  [item_name |-> <<"H","a","t">>, price |-> None, purchased_at |-> Some(<<2024, 13, 40>>),
   image_url |-> None, category_guess |-> None, confidence |-> 65, is_clothing |-> TRUE]

Cap ==
  [item_name |-> <<"C","a","p">>, price |-> Some(12000), purchased_at |-> None,
   image_url |-> None, category_guess |-> Some("Accessories"), confidence |-> 64, is_clothing |-> TRUE]

PhoneCase ==
  [item_name |-> <<"C","a","s","e">>, price |-> Some(9990), purchased_at |-> None,
   image_url |-> None, category_guess |-> Some("Other"), confidence |-> 95, is_clothing |-> FALSE]

\* ExtractedEmail values; extract_purchases_from_email returns, for a given
\* email, one of them or None on any failure
NoExtraction == [merchant |-> None, items |-> <<>>]

Extractions(msg_id) ==
  IF msg_id = "m1"
  THEN { [merchant |-> Some("MerchantA"), items |-> <<Tee, TeeAgain, Hat>>] }
  ELSE IF msg_id = "m2"
  THEN { [merchant |-> Some("MerchantB"), items |-> <<Cap, PhoneCase>>],
         [merchant |-> None, items |-> <<Hat>>] }
  ELSE { NoExtraction }

\* ApproveBody values a caller can send
ApproveBody(n, p, c) == [edited_item_name |-> n, edited_price_cents |-> p, edited_category |-> c]

NoBody == ApproveBody(None, None, None)

Bodies ==
  { NoBody,
    ApproveBody(None, Some(0), None),
    ApproveBody(None, Some(2500), None),
    ApproveBody(Some(<<"P","o","l","o">>), Some(2500), Some("Shoes")) }

\* ------------------------------------------------------------------ state
VARIABLES
  now,          \* datetime.utcnow()
  token,        \* users.refresh_token is set
  settings,     \* scan_settings: per user None or Some(row)
  queue,        \* review_queue_items, in insertion order; a row's id is its position
  items,        \* items (the wardrobe), in insertion order
  analytics,    \* user_analytics: per user None or Some(row)
  scan,         \* the scan request in flight and the position of its handler
  other,        \* a second scan request in flight, its handler not running now
  approving,    \* the approve requests in flight between their read and their commit
  resp,         \* the response to the last finished request
  history,      \* (history) the completed scans, oldest first
  extractCalls, \* (history) calls of the extraction service per user and message
  work          \* (history) the work the environment has done

vars == <<now, token, settings, queue, items, analytics, scan, other, approving, resp,
          history, extractCalls, work>>

\* the environment can do n more units of work
within_budget(n) == work + n <= MaxWork

\* ------------------------------------------------------------ table rows
\* ScanSettings(user_id, initial_scan_days, last_scan_at)
ScanSettings(days, last) == [initial_scan_days |-> days, last_scan_at |-> last]

NoCounts == [queued_count |-> 0, scanned_messages |-> 0, errors |-> 0, skipped_duplicates |-> 0]

\* (history) what an aborted scan had done
NoGhost == [user |-> "u1", cursor_before |-> None, inserted_ids |-> {}]

\* the endpoint, the status code, for a scan the ScanResponse, for the
\* listing of the review queue the list returned, and for an approve or a
\* reject the item id of the request's path
Response(op, code) ==
  [op |-> op, code |-> code, counts |-> NoCounts, listed |-> <<>>, item_id |-> 0,
   ghost |-> NoGhost]

IdleScan ==
  [pc |-> "idle", user |-> "u1", mode |-> "initial", days |-> 0, after_day |-> 0,
   emails |-> <<>>, idx |-> 0, extraction |-> NoExtraction, item_idx |-> 0,
   inserted_names_this_email |-> {}, image_index |-> 0,
   queued |-> 0, errors |-> 0, skipped_duplicates |-> 0, scanned |-> 0,
   started_at |-> 0, fetched_at |-> 0, cursor_before |-> None, inserted_ids |-> {},
   analytics_failed |-> FALSE, rows_before |-> 0]

\* consumer accounts get a ScanSettings row at registration (auth.register),
\* business accounts do not (auth.business_register); u1 and u3 are consumers,
\* u2 is a business account.  u1 and u3 have connected a mailbox, u2 has not yet.
Init ==
  /\ now = Now0
  /\ token = [u \in Accounts |-> u # "u2"]
  /\ settings = [u \in Accounts |-> IF u # "u2" THEN Some(ScanSettings(90, None)) ELSE None]
  /\ queue = <<>>
  /\ items = <<>>
  /\ analytics = [u \in Accounts |-> None]
  /\ scan = IdleScan
  /\ other = IdleScan
  /\ approving = <<>>
  /\ resp = Response("none", 0)
  /\ history = <<>>
  /\ extractCalls = [u \in Accounts |-> [m \in MsgIds |-> 0]]
  /\ work = 0

\* ---------------------------------------------------------------- queries
RowIds == 1..Len(queue)

\* the email-level check left out
already_processed_never(q, u, m) == FALSE

\* db.query(ReviewQueueItem).filter(user_id == u, email_message_id == m).first()
already_processed(q, u, m) ==
  \E i \in 1..Len(q) : q[i].user_id = u /\ q[i].email_message_id = Some(m)

\* the row looked up by its id alone
find_review_item_any_user(q, u, item_id) ==
  IF item_id \in 1..Len(q) THEN Some(item_id) ELSE None

\* db.query(ReviewQueueItem).filter(id == item_id, user_id == u).first()
find_review_item(q, u, item_id) ==
  IF item_id \in 1..Len(q) /\ q[item_id].user_id = u THEN Some(item_id) ELSE None

\* ------------------------------------------------------------- analytics
\* A Python dict is a sequence of <<key, value>> pairs in insertion order.
DictKeys(d) == {d[i][1] : i \in 1..Len(d)}

DictGet(d, k, default) ==
  IF k \in DictKeys(d) THEN d[CHOOSE i \in 1..Len(d) : d[i][1] = k][2] ELSE default

\* d[k] = v
DictAdd_overwrite(d, k, v) ==
  IF k \in DictKeys(d)
  THEN [i \in 1..Len(d) |-> IF d[i][1] = k THEN <<k, v>> ELSE d[i]]
  ELSE Append(d, <<k, v>>)

\* d[k] = d.get(k, 0) + v
DictAdd(d, k, v) ==
  IF k \in DictKeys(d)
  THEN [i \in 1..Len(d) |-> IF d[i][1] = k THEN <<k, d[i][2] + v>> ELSE d[i]]
  ELSE Append(d, <<k, v>>)

\* max(d, key=d.get) taken as the last key with the largest value
DictMax_last(d) ==
  d[CHOOSE i \in 1..Len(d) :
      /\ \A j \in 1..Len(d) : d[j][2] <= d[i][2]
      /\ \A j \in (i + 1)..Len(d) : d[j][2] < d[i][2]][1]

\* max(d, key=d.get): the first key, in insertion order, with the largest value
DictMax(d) ==
  d[CHOOSE i \in 1..Len(d) :
      /\ \A j \in 1..Len(d) : d[j][2] <= d[i][2]
      /\ \A j \in 1..(i - 1) : d[j][2] < d[i][2]][1]

\* rows still pending without a price left out
analytics_items_priced(q, u) ==
  SelectSeq(q, LAMBDA r : r.user_id = u /\ r.status # "rejected"
                            /\ ~(r.status = "pending" /\ r.price_cents = None))

\* the rows parse_json reads: the user's rows that are not rejected
analytics_items(q, u) ==
  SelectSeq(q, LAMBDA r : r.user_id = u /\ r.status # "rejected")

\* the loop of parse_json over the first n rows of rs
RECURSIVE accumulate(_, _)
accumulate(rs, n) ==
  IF n = 0
  THEN [purchase_amount_cents |-> 0, num_purchases |-> 0,
        merchant_freq_dict |-> <<>>, merchant_spending_dict |-> <<>>,
        category_freq_dict |-> <<>>, category_spending_dict |-> <<>>]
  ELSE LET a == accumulate(rs, n - 1)
           item == rs[n]
           merchant == Get(OrStr(item.merchant, Some("Unknown"), ""))
           category == Get(OrStr(item.category, Some("Other"), ""))
           price_cents == Get(OrInt(item.price_cents, Some(0)))
       IN  [purchase_amount_cents |-> a.purchase_amount_cents + price_cents,
            num_purchases |-> a.num_purchases + 1,
            merchant_freq_dict |-> DictAdd(a.merchant_freq_dict, merchant, 1),
            merchant_spending_dict |-> DictAdd(a.merchant_spending_dict, merchant, price_cents),
            category_freq_dict |-> DictAdd(a.category_freq_dict, category, 1),
            category_spending_dict |-> DictAdd(a.category_spending_dict, category, price_cents)]

\* the UserAnalytics columns parse_json writes
analytics_row(a, old) ==
  LET frequent_merchant == DictMax(a.merchant_freq_dict)
      most_spent_merchant == DictMax(a.merchant_spending_dict)
      frequent_category == DictMax(a.category_freq_dict)
      most_spent_category == DictMax(a.category_spending_dict)
  IN  [total_spending_cents |-> a.purchase_amount_cents,
       total_purchases |-> a.num_purchases,
       average_purchase_cents |-> a.purchase_amount_cents \div a.num_purchases,
       frequent_merchant |-> frequent_merchant,
       frequent_merchant_amount |-> DictGet(a.merchant_freq_dict, frequent_merchant, 0),
       merchant_freq_json |-> a.merchant_freq_dict,
       most_spent_merchant |-> most_spent_merchant,
       most_spent_merchant_amount |-> DictGet(a.merchant_spending_dict, most_spent_merchant, 0),
       merchant_spending_json |-> a.merchant_spending_dict,
       frequent_category |-> frequent_category,
       frequent_category_amount |-> DictGet(a.category_freq_dict, frequent_category, 0),
       category_freq_json |-> a.category_freq_dict,
       most_spent_category |-> most_spent_category,
       most_spent_category_amount |-> DictGet(a.category_spending_dict, most_spent_category, 0),
       category_spending_json |-> a.category_spending_dict,
       first_purchase_at |-> IF old = None THEN None ELSE Get(old).first_purchase_at,
       last_purchase_at |-> IF old = None THEN None ELSE Get(old).last_purchase_at]

\* a record written although the user has no rows to sum: zero totals
parse_json_resets(q, an, u) ==
  LET rs == analytics_items(q, u)
  IN  IF rs = <<>> THEN [an EXCEPT ![u] = None]
      ELSE [an EXCEPT ![u] = Some(analytics_row(accumulate(rs, Len(rs)), an[u]))]

\* parse_json(user_id, db): the user's UserAnalytics row afterwards
parse_json(q, an, u) ==
  LET rs == analytics_items(q, u)
  IN  IF rs = <<>> THEN an
      ELSE [an EXCEPT ![u] = Some(analytics_row(accumulate(rs, Len(rs)), an[u]))]

\* ------------------------------------------------------ mailbox provider
Range(f) == {f[i] : i \in DOMAIN f}

Min(a, b) == IF a <= b THEN a ELSE b

\* the messages the query "after:<date> (...)" matches
matching(box, after_day) == {e \in box : strftime(e.date) >= after_day}

\* the messages of M, newest first (the order the provider lists them in)
RECURSIVE newest_first(_)
newest_first(M) ==
  IF M = {} THEN <<>>
  ELSE LET e == CHOOSE x \in M : \A y \in M : y.date <= x.date
       IN  <<e>> \o newest_first(M \ {e})

\* s followed by up to n more entries taken from M
RECURSIVE with_repeats(_, _, _)
with_repeats(s, M, n) ==
  IF n = 0 THEN {s}
  ELSE {s} \cup UNION {with_repeats(Append(s, e), M, n - 1) : e \in M}

\* fetch_emails(service, after_date_str, max_results): the lists the provider
\* can hand back.  It lists the matching messages newest first, at most
\* max_results of them, and may list a message again.
fetch_emails(box, after_day) ==
  LET listed == newest_first(matching(box, after_day))
      page == SubSeq(listed, 1, Min(Len(listed), max_results))
  IN  {s \in with_repeats(page, Range(page), MaxRepeats) : Len(s) <= max_results}

\* --------------------------------------------------------- environment
\* the clock advances
Tick ==
  /\ within_budget(1)
  /\ now' = now + 1
  /\ work' = work + 1
  /\ UNCHANGED <<approving, other, token, settings, queue, items, analytics, scan, resp, history,
                 extractCalls>>

\* auth.google_oauth_callback: stores the refresh token and makes sure the
\* user has a ScanSettings row (_ensure_scan_settings)
google_oauth_callback(u) ==
  /\ scan.pc = "idle"
  /\ token' = [token EXCEPT ![u] = TRUE]
  /\ settings' = [settings EXCEPT ![u] = IF @ = None THEN Some(ScanSettings(90, None)) ELSE @]
  /\ UNCHANGED <<approving, other, now, queue, items, analytics, scan, resp, history, extractCalls, work>>

\* ----------------------------------------------------------------- scan
\* `not settings` alone
no_previous_scan_row_only(s) == s = None

\* `not settings or not settings.last_scan_at`
no_previous_scan(s) == s = None \/ Get(s).last_scan_at = None

\* POST /scan/initial up to the fetch: get_current_user, the validation of
\* initial_scan_days and the lower bound of the window
scan_initial(u, days) ==
  /\ scan.pc = "idle"
  /\ IF ~token[u]
     THEN /\ resp' = Response("scan_initial", 401)
          /\ UNCHANGED <<scan, work>>
     ELSE IF days \notin allowed_days
     THEN /\ resp' = Response("scan_initial", 400)
          /\ UNCHANGED <<scan, work>>
     ELSE /\ within_budget(2)
          /\ scan' = [IdleScan EXCEPT !.pc = "fetch", !.user = u, !.mode = "initial",
                                      !.days = days,
                                      !.after_day = strftime(now - days * DayLen),
                                      !.started_at = now, !.cursor_before = settings[u],
                                      !.rows_before = Len(queue)]
          /\ work' = work + 2
          /\ UNCHANGED resp
  /\ UNCHANGED <<approving, other, now, token, settings, queue, items, analytics, history, extractCalls>>

\* POST /scan/new up to the fetch: get_current_user, the precondition and the
\* lower bound of the window.  strftime on a missing last_scan_at raises.
scan_new(u) ==
  /\ scan.pc = "idle"
  /\ IF ~token[u]
     THEN /\ resp' = Response("scan_new", 401)
          /\ UNCHANGED <<scan, work>>
     ELSE IF no_previous_scan(settings[u])
     THEN /\ resp' = Response("scan_new", 400)
          /\ UNCHANGED <<scan, work>>
     ELSE IF settings[u] = None \/ Get(settings[u]).last_scan_at = None
     THEN /\ resp' = Response("scan_new", 500)
          /\ UNCHANGED <<scan, work>>
     ELSE /\ within_budget(1)
          /\ scan' = [IdleScan EXCEPT !.pc = "fetch", !.user = u, !.mode = "new",
                                      !.after_day = strftime(Get(Get(settings[u]).last_scan_at)),
                                      !.started_at = now, !.cursor_before = settings[u],
                                      !.rows_before = Len(queue)]
          /\ work' = work + 1
          /\ UNCHANGED resp
  /\ UNCHANGED <<approving, other, now, token, settings, queue, items, analytics, history, extractCalls>>

\* emails = fetch_emails(gmail_service, after_date_str, max_results=50)
Fetch ==
  /\ scan.pc = "fetch"
  /\ \E batch \in fetch_emails(mailbox[scan.user], scan.after_day) :
       LET again == Len(batch) - Cardinality(Range(batch))
       IN  /\ within_budget(again)
           /\ work' = work + again
           /\ scan' = [scan EXCEPT !.emails = batch, !.scanned = Len(batch),
                                    !.fetched_at = now,
                                    !.idx = IF batch = <<>> THEN 0 ELSE 1,
                                    !.pc = IF batch = <<>> THEN "analytics" ELSE "loop"]
  /\ UNCHANGED <<approving, other, now, token, settings, queue, items, analytics, resp, history,
                 extractCalls>>

\* the end of one iteration of `for email in emails`
next_email(s) ==
  IF s.idx < Len(s.emails)
  THEN [s EXCEPT !.pc = "loop", !.idx = @ + 1, !.extraction = NoExtraction, !.item_idx = 0,
                 !.inserted_names_this_email = {}, !.image_index = 0]
  ELSE [s EXCEPT !.pc = "analytics", !.idx = 0, !.extraction = NoExtraction, !.item_idx = 0,
                 !.inserted_names_this_email = {}, !.image_index = 0]

\* the end of one iteration of `for item in extraction.items`
next_item(s) ==
  IF s.item_idx < Len(s.extraction.items) THEN [s EXCEPT !.item_idx = @ + 1] ELSE next_email(s)

\* the failure ends the loop over the emails
extraction_failed_stops(s) ==
  [s EXCEPT !.errors = @ + 1, !.pc = "analytics", !.idx = 0]

\* `if extraction is None: errors += 1; continue`
extraction_failed(s) == next_email([s EXCEPT !.errors = @ + 1])

\* _process_emails_into_queue, one email up to its first item: the email-level
\* check and the call of the extraction service
process_email ==
  /\ scan.pc = "loop"
  /\ LET email == scan.emails[scan.idx]
         msg_id == email.message_id
     IN  IF already_processed(queue, scan.user, msg_id)
         THEN /\ scan' = next_email([scan EXCEPT !.skipped_duplicates = @ + 1])
              /\ UNCHANGED extractCalls
         ELSE /\ extractCalls' = [extractCalls EXCEPT ![scan.user][msg_id] = @ + 1]
              /\ \/ scan' = extraction_failed(scan)
                 \/ \E extraction \in Extractions(msg_id) :
                      scan' = IF extraction.items = <<>>
                              THEN next_email(scan)
                              ELSE [scan EXCEPT !.pc = "items", !.extraction = extraction,
                                                !.item_idx = 1,
                                                !.inserted_names_this_email = {},
                                                !.image_index = 0]
  /\ UNCHANGED <<approving, other, now, token, settings, queue, items, analytics, resp, history, work>>

\* db.commit() of a new ReviewQueueItem raises IntegrityError: the table of
\* backend/app/models.py declares no unique index, and item_name is never null
integrity_error(q, row) == FALSE

\* the ReviewQueueItem built from one candidate
new_review_item(s, email, item) ==
  LET image_url == IF OrStr(item.image_url, None, "") = None
                      /\ s.image_index < Len(email.image_urls)
                   THEN Some(email.image_urls[s.image_index + 1])
                   ELSE item.image_url
  IN  [user_id |-> s.user, source |-> "gmail", status |-> "pending",
       merchant |-> s.extraction.merchant, item_name |-> item.item_name,
       category |-> item.category_guess,
       price_cents |-> IF item.price # None THEN Some(price_to_cents(Get(item.price)))
                       ELSE None,
       currency |-> "USD",
       purchased_at |-> IF item.purchased_at # None /\ Get(item.purchased_at) # <<>>
                        THEN fromisoformat(Get(item.purchased_at)) ELSE None,
       email_message_id |-> Some(email.message_id),
       email_thread_id |-> Some(email.thread_id),
       image_url |-> image_url, created_at |-> now]

\* a candidate at the threshold dropped as well
dropped_at_threshold(item) == ~item.is_clothing \/ item.confidence <= CONFIDENCE_THRESHOLD

\* `if not item.is_clothing: continue` and
\* `if item.confidence < CONFIDENCE_THRESHOLD: continue`
dropped(item) == ~item.is_clothing \/ item.confidence < CONFIDENCE_THRESHOLD

\* _process_emails_into_queue, one candidate: the gates, the name check, the
\* insert and its commit
process_item ==
  /\ scan.pc = "items"
  /\ LET email == scan.emails[scan.idx]
         item == scan.extraction.items[scan.item_idx]
         name == normalized_name(item.item_name)
         row == new_review_item(scan, email, item)
         used == OrStr(item.image_url, None, "") = None
                   /\ scan.image_index < Len(email.image_urls)
         s1 == IF used THEN [scan EXCEPT !.image_index = @ + 1] ELSE scan
     IN  IF dropped(item)
         THEN /\ scan' = next_item(scan)
              /\ UNCHANGED queue
         ELSE IF name \in scan.inserted_names_this_email
         THEN /\ scan' = next_item([scan EXCEPT !.skipped_duplicates = @ + 1])
              /\ UNCHANGED queue
         ELSE IF integrity_error(queue, row)
         THEN /\ scan' = next_item([s1 EXCEPT !.skipped_duplicates = @ + 1])
              /\ UNCHANGED queue
         ELSE /\ queue' = Append(queue, row)
              /\ scan' = next_item([s1 EXCEPT !.queued = @ + 1,
                                              !.inserted_names_this_email = @ \cup {name},
                                              !.inserted_ids = @ \cup {Len(queue) + 1}])
  /\ UNCHANGED <<approving, other, now, token, settings, items, analytics, resp, history, extractCalls, work>>

\* the exception of parse_json leaves the handler
run_analytics_propagates ==
  /\ scan.pc = "analytics"
  /\ \/ /\ analytics' = parse_json(queue, analytics, scan.user)
        /\ scan' = [scan EXCEPT !.pc = "cursor"]
        /\ UNCHANGED resp
     \/ /\ UNCHANGED analytics
        /\ scan' = IdleScan
        /\ resp' = Response(IF scan.mode = "initial" THEN "scan_initial" ELSE "scan_new", 500)
  /\ UNCHANGED <<approving, other, now, token, settings, queue, items, history, extractCalls, work>>

\* try: parse_json(user_id, db) except Exception: (logged); analytics_failed
\* (history) tells that the exception was raised
run_analytics ==
  /\ scan.pc = "analytics"
  /\ \/ /\ analytics' = parse_json(queue, analytics, scan.user)
        /\ scan' = [scan EXCEPT !.pc = "cursor"]
     \/ /\ UNCHANGED analytics
        /\ scan' = [scan EXCEPT !.pc = "cursor", !.analytics_failed = TRUE]
  /\ UNCHANGED <<approving, other, now, token, settings, queue, items, resp, history, extractCalls, work>>

\* last_scan_at taken when the handler started
saved_settings_at_start(s, old, t) ==
  IF s.mode = "initial"
  THEN Some(ScanSettings(s.days, Some(s.started_at)))
  ELSE Some([Get(old) EXCEPT !.last_scan_at = Some(s.started_at)])

\* the ScanSettings row the scan leaves: settings.last_scan_at = datetime.utcnow()
saved_settings(s, old, t) ==
  IF s.mode = "initial"
  THEN Some(ScanSettings(s.days, Some(t)))
  ELSE Some([Get(old) EXCEPT !.last_scan_at = Some(t)])

\* the emails that were skipped not counted as scanned
ScanResponse_processed(s) ==
  [queued_count |-> s.queued, scanned_messages |-> s.scanned - s.skipped_duplicates,
   errors |-> s.errors, skipped_duplicates |-> s.skipped_duplicates]

\* return ScanResponse(queued_count=queued, scanned_messages=scanned, ...)
ScanResponse(s) ==
  [queued_count |-> s.queued, scanned_messages |-> s.scanned, errors |-> s.errors,
   skipped_duplicates |-> s.skipped_duplicates]

\* the end of scan_initial and scan_new: the settings row, its commit and the
\* response
save_settings ==
  /\ scan.pc = "cursor"
  /\ settings' = [settings EXCEPT ![scan.user] = saved_settings(scan, @, now)]
  /\ resp' = [Response(IF scan.mode = "initial" THEN "scan_initial" ELSE "scan_new", 200)
                EXCEPT !.counts = ScanResponse(scan)]
  /\ history' = Append(history,
                       [user |-> scan.user, mode |-> scan.mode,
                        after_day |-> scan.after_day, emails |-> scan.emails,
                        counts |-> ScanResponse(scan), started_at |-> scan.started_at,
                        fetched_at |-> scan.fetched_at, completed_at |-> now,
                        inserted_ids |-> scan.inserted_ids,
                        analytics_failed |-> scan.analytics_failed])
  /\ scan' = IdleScan
  /\ UNCHANGED <<approving, other, now, token, queue, items, analytics, extractCalls, work>>

\* one transaction for the whole scan: what it inserted is rolled back
AbortOneTransaction ==
  /\ scan.pc # "idle"
  /\ resp' = [Response("abort", 500) EXCEPT
                !.ghost = [user |-> scan.user, cursor_before |-> scan.cursor_before,
                           inserted_ids |-> scan.inserted_ids]]
  /\ queue' = SubSeq(queue, 1, Len(queue) - Cardinality(scan.inserted_ids))
  /\ scan' = IdleScan
  /\ UNCHANGED <<approving, other, now, token, settings, items, analytics, history, extractCalls, work>>

\* the request is cancelled, or an exception leaves the handler: get_db closes
\* the session, what was committed stays
Abort ==
  /\ scan.pc # "idle"
  /\ resp' = [Response("abort", 500) EXCEPT
                !.ghost = [user |-> scan.user, cursor_before |-> scan.cursor_before,
                           inserted_ids |-> scan.inserted_ids]]
  /\ scan' = IdleScan
  /\ UNCHANGED <<approving, other, now, token, settings, queue, items, analytics, history, extractCalls,
                 work>>

\* --------------------------------------------------------------- review
\* final_price_cents = body.edited_price_cents or review_item.price_cents
final_price_cents(body, review_item) ==
  OrInt(body.edited_price_cents, review_item.price_cents)

\* final_category = body.edited_category or review_item.category or "Other"
final_category(body, review_item) ==
  OrStr(OrStr(body.edited_category, review_item.category, ""), Some("Other"), "")

\* final_item_name = body.edited_item_name or review_item.item_name
final_item_name(body, review_item) ==
  Get(OrStr(body.edited_item_name, Some(review_item.item_name), <<>>))

\* the Item row approve_item creates; review_id and body (history) are the
\* queue row it was created from and the request body
new_wardrobe_item(u, body, review_item, review_id) ==
  [user_id |-> u, merchant |-> review_item.merchant,
   item_name |-> final_item_name(body, review_item),
   category |-> final_category(body, review_item),
   price_cents |-> final_price_cents(body, review_item),
   currency |-> review_item.currency, purchased_at |-> review_item.purchased_at,
   wear_count |-> 0, source |-> review_item.source, image_url |-> review_item.image_url,
   review_id |-> review_id, body |-> body]

\* the check of the resolved price left out
price_unresolved_never(p) == FALSE

\* `if final_price_cents is None: raise HTTPException(422)`
price_unresolved(p) == p = None

\* `if review_item.status != "pending": raise HTTPException(400)` of approve_item
approve_refuses(review_item) == review_item.status # "pending"

\* reject_item has no check of the status
reject_refuses(review_item) == FALSE

\* the stored price cleared once the row is approved
approved_price_cleared(q, item_id) ==
  [q EXCEPT ![item_id].status = "approved", ![item_id].price_cents = None]

\* review_item.status = "approved": nothing else of the row is assigned
approved(q, item_id) == [q EXCEPT ![item_id].status = "approved"]

\* POST /review-items/{item_id}/approve
approve_item(u, item_id, body) ==
  LET found == find_review_item(queue, u, item_id)
      call == [Response("approve", 0) EXCEPT !.item_id = item_id]
  IN  /\ scan.pc = "idle"
      /\ within_budget(1)
      /\ work' = work + 1
      /\ IF found = None
         THEN /\ resp' = [call EXCEPT !.code = 404]
              /\ UNCHANGED <<queue, items>>
         ELSE IF approve_refuses(queue[item_id])
         THEN /\ resp' = [call EXCEPT !.code = 400]
              /\ UNCHANGED <<queue, items>>
         ELSE IF price_unresolved(final_price_cents(body, queue[item_id]))
         THEN /\ resp' = [call EXCEPT !.code = 422]
              /\ UNCHANGED <<queue, items>>
         ELSE /\ items' = Append(items, new_wardrobe_item(u, body, queue[item_id], item_id))
              /\ queue' = approved(queue, item_id)
              /\ resp' = [call EXCEPT !.code = 200]
      /\ UNCHANGED <<approving, other, now, token, settings, analytics, scan, history, extractCalls>>

\* the row deleted
rejected_deleted(q, item_id) == SubSeq(q, 1, item_id - 1) \o SubSeq(q, item_id + 1, Len(q))

\* review_item.status = "rejected": the row stays in the table
rejected(q, item_id) == [q EXCEPT ![item_id].status = "rejected"]

\* POST /review-items/{item_id}/reject
reject_item(u, item_id) ==
  LET found == find_review_item(queue, u, item_id)
      call == [Response("reject", 0) EXCEPT !.item_id = item_id]
  IN  /\ scan.pc = "idle"
      /\ within_budget(1)
      /\ work' = work + 1
      /\ IF found = None
         THEN /\ resp' = [call EXCEPT !.code = 404]
              /\ UNCHANGED queue
         ELSE IF reject_refuses(queue[item_id])
         THEN /\ resp' = [call EXCEPT !.code = 400]
              /\ UNCHANGED queue
         ELSE /\ queue' = rejected(queue, item_id)
              /\ resp' = [call EXCEPT !.code = 200]
      /\ UNCHANGED <<approving, other, now, token, settings, items, analytics, scan, history, extractCalls>>

\* the dict list_review_items returns for row item_id
review_item_view(q, item_id) ==
  [id |-> item_id, source |-> q[item_id].source, status |-> q[item_id].status,
   merchant |-> q[item_id].merchant, item_name |-> q[item_id].item_name,
   category |-> q[item_id].category, price_cents |-> q[item_id].price_cents,
   price_missing |-> q[item_id].price_cents = None,
   currency |-> q[item_id].currency, purchased_at |-> q[item_id].purchased_at,
   image_url |-> q[item_id].image_url, created_at |-> q[item_id].created_at]

\* the oldest rows first
first_listed_oldest(q, P) == {i \in P : \A j \in P : q[i].created_at <= q[j].created_at}

\* order_by(created_at.desc()): the rows of P that can come first, those
\* created last; the order among rows created at the same time is the
\* database's choice
first_listed(q, P) == {i \in P : \A j \in P : q[j].created_at <= q[i].created_at}

\* the orders in which the query can return the rows P
RECURSIVE ordered(_, _)
ordered(q, P) ==
  IF P = {} THEN {<<>>}
  ELSE UNION {{<<i>> \o t : t \in ordered(q, P \ {i})} : i \in first_listed(q, P)}

\* db.query(ReviewQueueItem).filter(user_id == u, status == "pending")
\*   .order_by(created_at.desc()).all(): the results the query can have
pending_items(q, u) ==
  ordered(q, {i \in 1..Len(q) : q[i].user_id = u /\ q[i].status = "pending"})

\* GET /review-items
list_review_items(u) ==
  /\ scan.pc = "idle"
  /\ within_budget(1)
  /\ work' = work + 1
  /\ \E rows \in pending_items(queue, u) :
       resp' = [Response("list", 200) EXCEPT
                  !.listed = [k \in 1..Len(rows) |-> review_item_view(queue, rows[k])]]
  /\ UNCHANGED <<approving, other, now, token, settings, queue, items, analytics, scan, history,
                 extractCalls>>

\* ------------------------------------------------------- specification
\* the initial_scan_days a caller sends
DaysArgs == {7, 30, 90}

Next ==
  \/ Tick
  \/ \E u \in Users : google_oauth_callback(u)
  \/ \E u \in Users, days \in DaysArgs : scan_initial(u, days)
  \/ \E u \in Users : scan_new(u)
  \/ Fetch
  \/ process_email
  \/ process_item
  \/ run_analytics
  \/ save_settings
  \/ Abort
  \/ \E u \in Users, item_id \in 1..(Len(queue) + 1), body \in Bodies :
       approve_item(u, item_id, body)
  \/ \E u \in Users, item_id \in 1..(Len(queue) + 1) : reject_item(u, item_id)
  \/ \E u \in Users : list_review_items(u)

Spec == Init /\ [][Next]_vars

\* Two scan requests in flight: the handlers are plain `def` endpoints, which
\* the server runs on a thread pool, each with its own session (get_db); the
\* running handler and the waiting one change places between any two steps.
Switch ==
  /\ scan # other
  /\ scan' = other
  /\ other' = scan
  /\ UNCHANGED <<approving, now, token, settings, queue, items, analytics, resp, history,
                 extractCalls, work>>

NextConcurrent ==
  \/ Next
  \/ Switch

SpecConcurrent == Init /\ [][NextConcurrent]_vars

\* POST /review-items/{item_id}/approve up to its writes: the lookup of the
\* row and the checks of its status and its price, all of which pass.  The
\* handler keeps the row as it read it.
approve_read(u, item_id, body) ==
  LET found == find_review_item(queue, u, item_id)
  IN  /\ scan.pc = "idle"
      /\ Len(approving) < MaxApproving
      /\ within_budget(1)
      /\ work' = work + 1
      /\ found # None
      /\ ~approve_refuses(queue[item_id])
      /\ ~price_unresolved(final_price_cents(body, queue[item_id]))
      /\ approving' = Append(approving, [user |-> u, item_id |-> item_id, body |-> body,
                                         review_item |-> queue[item_id]])
      /\ UNCHANGED <<other, now, token, settings, queue, items, analytics, scan, resp,
                     history, extractCalls>>

\* the rest of the handler for the k-th approve in flight: db.add(new_item),
\* review_item.status = "approved", db.commit() and the response
approve_commit(k) ==
  LET r == approving[k]
      call == [Response("approve", 0) EXCEPT !.item_id = r.item_id]
  IN  /\ items' = Append(items, new_wardrobe_item(r.user, r.body, r.review_item, r.item_id))
      /\ queue' = approved(queue, r.item_id)
      /\ resp' = [call EXCEPT !.code = 200]
      /\ approving' = SubSeq(approving, 1, k - 1) \o SubSeq(approving, k + 1, Len(approving))
      /\ UNCHANGED <<other, now, token, settings, analytics, scan, history, extractCalls,
                     work>>

\* Review requests of which the approves run concurrently: each handler has
\* a session of its own and nothing orders the read of one before the commit
\* of another.
NextReview ==
  \/ Next
  \/ \E u \in Users, item_id \in RowIds, body \in Bodies : approve_read(u, item_id, body)
  \/ \E k \in 1..Len(approving) : approve_commit(k)

SpecReview == Init /\ [][NextReview]_vars

\* The scans of the bulk account alone, none of them cancelled.
NextBulk ==
  \/ scan_initial(BulkUser, 90)
  \/ scan_new(BulkUser)
  \/ Fetch
  \/ process_email
  \/ process_item
  \/ run_analytics
  \/ save_settings

SpecBulk == Init /\ [][NextBulk]_vars

\* ---------------------------------------------------------------- claims
\* the completed scans of user u, oldest first
scans_of(u) == SelectSeq(history, LAMBDA h : h.user = u)

\* C1: no two rows of one user with the same originating message id have the
\* same trimmed, case-folded item name
NoDuplicateNames ==
  \A i \in RowIds, j \in RowIds :
    (i < j /\ queue[i].user_id = queue[j].user_id
           /\ queue[i].email_message_id # None
           /\ queue[i].email_message_id = queue[j].email_message_id)
      => Lower(Strip(queue[i].item_name)) # Lower(Strip(queue[j].item_name))

\* C1 witness: a completed scan was handed a message twice, queued two rows
\* and skipped both a candidate and an email
RepeatedEmailSkipped ==
  \E k \in 1..Len(history) :
    /\ Len(history[k].emails) > Cardinality(Range(history[k].emails))
    /\ history[k].counts.queued_count >= 2
    /\ history[k].counts.skipped_duplicates >= 2

\* C2: the second of two initial scans of one user over the same emails
\* reports queued_count 0 and as many skipped_duplicates as the first queued
SecondInitialScanSkipsAll ==
  \A u \in Users :
    \A k \in 1..(Len(scans_of(u)) - 1) :
      LET first == scans_of(u)[k]
          second == scans_of(u)[k + 1]
      IN  (first.mode = "initial" /\ second.mode = "initial"
             /\ first.emails = second.emails)
            => /\ second.counts.queued_count = 0
               /\ second.counts.skipped_duplicates = first.counts.queued_count

\* C3: the extraction service is called at most once per user and message
ExtractedAtMostOnce ==
  \A u \in Users, m \in MsgIds : extractCalls[u][m] <= 1

\* C4: a row that is approved or rejected keeps its status, and approve or
\* reject on such a row answers with an error
TerminalStatusStays ==
  [][ /\ \A i \in RowIds : queue[i].status # "pending" => queue'[i].status = queue[i].status
      /\ \A u \in Users, i \in RowIds :
           (queue[i].user_id = u /\ queue[i].status # "pending"
              /\ (reject_item(u, i) \/ \E body \in Bodies : approve_item(u, i, body)))
             => resp'.code >= 400 ]_vars

\* the Item rows created by approving queue row i
approved_from(i) == {k \in 1..Len(items) : items[k].review_id = i}

\* C5: a queue row has exactly one Item created from it when its status is
\* approved and none otherwise
OneItemIffApproved ==
  \A i \in RowIds :
    Cardinality(approved_from(i)) = IF queue[i].status = "approved" THEN 1 ELSE 0

\* C6: approve of a pending row without a stored price and without a price
\* override answers 422 and changes neither the row nor the wardrobe; every
\* Item has a price and wear count 0
ApproveNeedsPrice ==
  [][ /\ \A u \in Users, i \in RowIds, body \in Bodies :
           (queue[i].user_id = u /\ queue[i].status = "pending"
              /\ queue[i].price_cents = None /\ body.edited_price_cents = None
              /\ approve_item(u, i, body))
             => (resp'.code = 422 /\ UNCHANGED <<queue, items>>)
      /\ \A k \in 1..Len(items') :
           items'[k].price_cents # None /\ items'[k].wear_count = 0 ]_vars

\* C6 witness: an approve was just refused for the missing price, the row is
\* still pending, and an Item exists
ApproveRefusedForPrice ==
  /\ resp.op = "approve" /\ resp.code = 422
  /\ \E i \in RowIds : queue[i].status = "pending" /\ queue[i].price_cents = None
  /\ items # <<>>

\* C7: the name, category and price of an Item are the overrides of the
\* request where one was sent and the stored values of the queue row otherwise
OverridesWin ==
  \A k \in 1..Len(items) :
    LET it == items[k]
        row == queue[it.review_id]
    IN  /\ it.body.edited_item_name # None => it.item_name = Get(it.body.edited_item_name)
        /\ it.body.edited_item_name = None => it.item_name = row.item_name
        /\ it.body.edited_category # None => it.category = it.body.edited_category
        /\ (it.body.edited_category = None /\ row.category # None)
             => it.category = row.category
        /\ it.body.edited_price_cents # None => it.price_cents = it.body.edited_price_cents
        /\ it.body.edited_price_cents = None => it.price_cents = row.price_cents

\* C8: scan_new for a user without a settings row or with a null last_scan_at
\* answers with an error, starts no fetch and changes no table
IncrementalNeedsPriorScan ==
  [][ \A u \in Users :
        ((settings[u] = None \/ Get(settings[u]).last_scan_at = None) /\ scan_new(u))
          => /\ resp'.op = "scan_new"
             /\ resp'.code = IF token[u] THEN 400 ELSE 401
             /\ scan'.pc = "idle"
             /\ UNCHANGED <<queue, settings, analytics, extractCalls>> ]_vars

\* C8 witness: scan_new was just refused for a connected user who has a
\* settings row with a null last_scan_at
IncrementalRefused ==
  /\ resp.op = "scan_new" /\ resp.code = 400
  /\ \E u \in Users : token[u] /\ settings[u] # None /\ Get(settings[u]).last_scan_at = None

\* the last completed scan of u
last_scan(u) == scans_of(u)[Len(scans_of(u))]

\* last_scan_at is null for a user without a completed scan
NullUntilFirstScan ==
  \A u \in Users :
    scans_of(u) = <<>> => (settings[u] = None \/ Get(settings[u]).last_scan_at = None)

AbortKeepsRowsAndCursor ==
  /\ scan.pc # "idle"
       => /\ settings[scan.user] = scan.cursor_before
          /\ \A i \in scan.inserted_ids :
               i \in RowIds /\ queue[i].user_id = scan.user /\ queue[i].created_at >= scan.started_at
  /\ resp.op = "abort"
       => /\ settings[resp.ghost.user] = resp.ghost.cursor_before
          /\ \A i \in resp.ghost.inserted_ids :
               i \in RowIds /\ queue[i].user_id = resp.ghost.user

\* C10 witness: a scan was aborted after it had inserted a row, for a user
\* whose earlier scan had set last_scan_at
AbortedAfterInsert ==
  /\ resp.op = "abort"
  /\ resp.ghost.inserted_ids # {}
  /\ resp.ghost.cursor_before # None
  /\ Get(resp.ghost.cursor_before).last_scan_at # None

\* C11: between requests, a user's analytics row (when there is one, and the
\* user has rows that are not rejected) is what parse_json computes from the
\* queue as it is now
AnalyticsIsCurrent ==
  (scan.pc = "idle" /\ other.pc = "idle")
    => \A u \in Users :
         (analytics[u] # None /\ analytics_items(queue, u) # <<>>)
           => analytics[u] = parse_json(queue, analytics, u)[u]

\* parse_json has just written u's analytics row: the scan of u is between
\* its recompute, which did not raise, and the save of its settings
recomputed(u) ==
  /\ scan.pc = "cursor" /\ scan.user = u /\ ~scan.analytics_failed
  /\ analytics_items(queue, u) # <<>>

\* the rows of u that are pending without a price
unpriced_pending(u) ==
  {i \in RowIds : queue[i].user_id = u /\ queue[i].status = "pending"
                    /\ queue[i].price_cents = None}

\* the rows of u that are not rejected and not pending without a price
counted_otherwise(u) ==
  {i \in RowIds : queue[i].user_id = u /\ queue[i].status # "rejected"
                    /\ i \notin unpriced_pending(u)}

\* C12, as stated: a recompute does not count the rows that are pending
\* without a price in total_purchases
PendingNullPriceNotCounted ==
  \A u \in Users :
    recomputed(u)
      => Get(analytics[u]).total_purchases = Cardinality(counted_otherwise(u))

\* C12, amended: a recompute counts each row that is pending without a price
\* as one purchase in total_purchases, like every other row that is not rejected
PendingNullPriceCounted ==
  \A u \in Users :
    recomputed(u)
      => Get(analytics[u]).total_purchases
           = Cardinality(counted_otherwise(u)) + Cardinality(unpriced_pending(u))

\* C12 witness: a recompute over a row pending without a price and a priced row
RecomputedWithUnpricedPending ==
  \E u \in Users :
    recomputed(u) /\ unpriced_pending(u) # {} /\ counted_otherwise(u) # {}

\* the message a handler is working on, after its email-level check found no row
checked_message(s) ==
  IF s.pc = "items" THEN Some(<<s.user, s.emails[s.idx].message_id>>) ELSE None

\* C13: of two scans of one user in flight together, not both are past the
\* email-level check for the same message, and the queue holds no two rows of
\* one user and message with the same normalized name
ConcurrentScansSerialized ==
  /\ checked_message(scan) # None => checked_message(scan) # checked_message(other)
  /\ \A i \in RowIds, j \in RowIds :
       (i # j /\ queue[i].user_id = queue[j].user_id
              /\ queue[i].email_message_id = queue[j].email_message_id)
         => normalized_name(queue[i].item_name) # normalized_name(queue[j].item_name)

loop_goes_on(s, t) ==
  IF s.idx < Len(s.emails)
  THEN t.pc = "loop" /\ t.idx = s.idx + 1 /\ t.emails = s.emails
  ELSE t.pc = "analytics"

\* the loop over the candidates goes on after the candidate at s.item_idx
items_go_on(s, t) ==
  IF s.item_idx < Len(s.extraction.items)
  THEN t.pc = "items" /\ t.item_idx = s.item_idx + 1 /\ t.extraction = s.extraction
  ELSE loop_goes_on(s, t)

ListIsPendingNewestFirst ==
  [][ \A u \in Users :
        list_review_items(u)
          => LET L == resp'.listed
             IN  /\ resp'.code = 200
                 /\ {L[k].id : k \in 1..Len(L)}
                      = {i \in RowIds : queue[i].user_id = u /\ queue[i].status = "pending"}
                 /\ \A k \in 1..Len(L), l \in 1..Len(L) :
                      /\ k # l => L[k].id # L[l].id
                      /\ k < l => L[k].created_at >= L[l].created_at
                 /\ \A k \in 1..Len(L) :
                      /\ L[k].created_at = queue[L[k].id].created_at
                      /\ L[k].price_cents = queue[L[k].id].price_cents
                      /\ L[k].price_missing <=> (queue[L[k].id].price_cents = None) ]_vars

\* C16 witness: a listing of two rows created at different times, one with
\* and one without a price
ListedTwoAges ==
  /\ resp.op = "list"
  /\ \E k \in 1..Len(resp.listed), l \in 1..Len(resp.listed) :
       /\ resp.listed[k].created_at > resp.listed[l].created_at
       /\ resp.listed[k].price_missing /\ ~resp.listed[l].price_missing

\* u has a rejected row that came from message m
rejected_from(u, m) ==
  \E i \in RowIds : /\ queue[i].user_id = u /\ queue[i].status = "rejected"
                    /\ queue[i].email_message_id = Some(m)

\* C17: no step removes or replaces a row of the queue; a scan that comes to
\* a message from which the user has a rejected row skips it at the
\* email-level check without calling the extraction service, and no row is
\* inserted for such a message
RejectedRowsSuppress ==
  [][ /\ Len(queue') >= Len(queue)
      /\ \A i \in RowIds :
           /\ queue'[i].user_id = queue[i].user_id
           /\ queue'[i].email_message_id = queue[i].email_message_id
           /\ queue'[i].item_name = queue[i].item_name
      /\ (scan.pc = "loop" /\ process_email
            /\ rejected_from(scan.user, scan.emails[scan.idx].message_id))
           => /\ extractCalls' = extractCalls
              /\ scan'.skipped_duplicates = scan.skipped_duplicates + 1
              /\ scan'.pc # "items"
      /\ \A i \in (Len(queue) + 1)..Len(queue') :
           ~rejected_from(queue'[i].user_id, Get(queue'[i].email_message_id)) ]_vars

\* C17 witness: the last completed scan started after all rows of its user
\* were rejected, was handed the message they came from, skipped it and
\* queued nothing
ScanSkippedRejectedEmail ==
  /\ history # <<>>
  /\ LET h == history[Len(history)]
     IN  /\ h.counts.skipped_duplicates > 0
         /\ h.counts.queued_count = 0
         /\ h.inserted_ids = {}
         /\ \E i \in RowIds : queue[i].user_id = h.user
         /\ \A i \in RowIds :
              queue[i].user_id = h.user
                => /\ queue[i].status = "rejected"
                   /\ \E k \in 1..Len(h.emails) :
                        Some(h.emails[k].message_id) = queue[i].email_message_id
  /\ scan.pc = "idle"
  /\ resp.op = "scan_new"

\* the price of a row, a null price taken as 0
price_or_zero(r) == IF r.price_cents = None THEN 0 ELSE Get(r.price_cents)

\* the merchant of a row, "Unknown" when it has none
merchant_or_unknown(r) == IF r.merchant = None THEN "Unknown" ELSE Get(r.merchant)

\* the category of a row, "Other" when it has none
category_or_other(r) == IF r.category = None THEN "Other" ELSE Get(r.category)

\* the sum of the prices of the rows rs
RECURSIVE total_price(_)
total_price(rs) == IF rs = <<>> THEN 0 ELSE price_or_zero(Head(rs)) + total_price(Tail(rs))

\* d maps exactly the keys of the rows rs, each to value(the rows with that key)
maps_per_key(d, rs, key(_), value(_)) ==
  /\ DictKeys(d) = {key(rs[i]) : i \in 1..Len(rs)}
  /\ \A k \in DictKeys(d) :
       DictGet(d, k, 0) = value(SelectSeq(rs, LAMBDA r : key(r) = k))

\* C18: a recompute over the rows of u that are not rejected writes their
\* number as total_purchases, the sum of their prices (null as 0) as the total
\* spend, the floor of the quotient as the average, and per merchant
\* ("Unknown" for none) and per category ("Other" for none) the number and
\* the summed price of the rows
RecomputeIsRight ==
  \A u \in Users :
    recomputed(u)
      => LET rs == SelectSeq(queue, LAMBDA r : r.user_id = u /\ r.status # "rejected")
             a == Get(analytics[u])
         IN  /\ a.total_purchases = Len(rs)
             /\ a.total_spending_cents = total_price(rs)
             /\ a.average_purchase_cents * Len(rs) <= total_price(rs)
             /\ total_price(rs) < (a.average_purchase_cents + 1) * Len(rs)
             /\ maps_per_key(a.merchant_freq_json, rs, merchant_or_unknown, Len)
             /\ maps_per_key(a.merchant_spending_json, rs, merchant_or_unknown, total_price)
             /\ maps_per_key(a.category_freq_json, rs, category_or_other, Len)
             /\ maps_per_key(a.category_spending_json, rs, category_or_other, total_price)

\* C18 witness: a recompute over rows with and without a price, merchant and
\* category, the total not a multiple of the count, one merchant with two rows
RecomputedMixedRows ==
  \E u \in Users :
    /\ recomputed(u)
    /\ Get(analytics[u]).total_spending_cents % Get(analytics[u]).total_purchases # 0
    /\ DictGet(Get(analytics[u]).merchant_freq_json, "Unknown", 0) = 1
    /\ DictGet(Get(analytics[u]).merchant_freq_json, "MerchantA", 0) = 2
    /\ DictGet(Get(analytics[u]).category_freq_json, "Other", 0) = 2
    /\ DictGet(Get(analytics[u]).category_spending_json, "Tops", 0) > 0

\* the candidate the scan is at
candidate == scan.extraction.items[scan.item_idx]

\* C19: a row enters the queue only in a step of a scan at a candidate that is
\* clothing with a confidence of at least 0.65 (in hundredths, 65); such a
\* candidate whose name the email has not had yet is inserted, also at
\* exactly 65; a candidate at 64 or not clothing changes neither the queue nor
\* a counter
OnlyConfidentClothingQueued ==
  [][ /\ Len(queue') > Len(queue)
           => /\ scan.pc = "items"
              /\ candidate.is_clothing /\ candidate.confidence >= 65
              /\ Len(queue') = Len(queue) + 1
              /\ queue'[Len(queue')].item_name = candidate.item_name
      /\ (scan.pc = "items" /\ process_item /\ candidate.is_clothing
            /\ candidate.confidence >= 65
            /\ Lower(Strip(candidate.item_name)) \notin scan.inserted_names_this_email)
           => /\ Len(queue') = Len(queue) + 1
              /\ scan'.queued = scan.queued + 1
      /\ (scan.pc = "items" /\ process_item
            /\ (~candidate.is_clothing \/ candidate.confidence <= 64))
           => /\ UNCHANGED queue
              /\ ScanResponse(scan') = ScanResponse(scan) ]_vars

\* C19 witness: the candidate at exactly the threshold was queued from one
\* email, and a scan of one email whose extraction did not fail queued and
\* skipped nothing (its candidates were at 64 and not clothing)
ThresholdQueuedBelowDropped ==
  /\ Hat.confidence = CONFIDENCE_THRESHOLD /\ Cap.confidence = CONFIDENCE_THRESHOLD - 1
  /\ \E i \in RowIds : queue[i].item_name = Hat.item_name
  /\ \E k \in 1..Len(history) :
       /\ Len(history[k].emails) = 1
       /\ history[k].counts = [NoCounts EXCEPT !.scanned_messages = 1]

\* the candidates of the email the scan is at that passed the gates and have
\* been gone through, by their position in the extraction result
passed_so_far ==
  {k \in 1..(scan.item_idx - 1) :
     /\ scan.extraction.items[k].is_clothing
     /\ scan.extraction.items[k].confidence >= CONFIDENCE_THRESHOLD}

\* the first candidate of the email, in extraction order, that passed the
\* gates and has the trimmed, case-folded name of candidate k
first_of_name(k) ==
  LET same == {j \in passed_so_far :
                 Lower(Strip(scan.extraction.items[j].item_name))
                   = Lower(Strip(scan.extraction.items[k].item_name))}
  IN  scan.extraction.items[CHOOSE j \in same : \A i \in same : j <= i]

\* the rows this scan has inserted for the email it is at with the name of
\* candidate k
rows_of_name(k) ==
  {i \in scan.inserted_ids :
     /\ queue[i].email_message_id = Some(scan.emails[scan.idx].message_id)
     /\ Lower(Strip(queue[i].item_name))
          = Lower(Strip(scan.extraction.items[k].item_name))}

\* C20: while a scan goes through the candidates of an email, each name
\* among the gate-passing candidates it has gone through has exactly one row,
\* the row of the first candidate with that name; a gate-passing candidate
\* whose name the email has had already is not inserted and adds one to
\* skipped_duplicates
FirstSeenWins ==
  /\ [](scan.pc = "items"
          => \A k \in passed_so_far :
               /\ Cardinality(rows_of_name(k)) = 1
               /\ \A i \in rows_of_name(k) :
                    /\ queue[i].item_name = first_of_name(k).item_name
                    /\ (queue[i].price_cents = None) <=> (first_of_name(k).price = None))
  /\ [][ (scan.pc = "items" /\ process_item
            /\ candidate.is_clothing /\ candidate.confidence >= CONFIDENCE_THRESHOLD
            /\ \E k \in passed_so_far :
                 Lower(Strip(scan.extraction.items[k].item_name))
                   = Lower(Strip(candidate.item_name)))
           => /\ UNCHANGED queue
              /\ scan'.queued = scan.queued
              /\ scan'.skipped_duplicates = scan.skipped_duplicates + 1 ]_vars

\* C20 witness: the first scan, handed no message twice, queued the priced
\* "Tee" and skipped one candidate, " tee" without a price
SecondOfNameSkipped ==
  /\ history # <<>>
  /\ Len(history[1].emails) = Cardinality(Range(history[1].emails))
  /\ history[1].counts.skipped_duplicates = 1
  /\ \E i \in history[1].inserted_ids :
       queue[i].item_name = Tee.item_name /\ queue[i].price_cents # None
  /\ \A i \in RowIds : queue[i].item_name # TeeAgain.item_name
  /\ Lower(Strip(TeeAgain.item_name)) = Lower(Strip(Tee.item_name))

\* C21: no two rows of one user that came from the same message have the
\* same image reference
ImageHintsUsedOnce ==
  \A i \in RowIds, j \in RowIds :
    (i # j /\ queue[i].user_id = queue[j].user_id
           /\ queue[i].email_message_id = queue[j].email_message_id
           /\ queue[i].image_url # None)
      => queue[i].image_url # queue[j].image_url

\* C22: the row a scan inserts has a null price exactly when its candidate
\* has none, and otherwise the candidate's price in cents: a hundred times
\* the price in dollars, which is a tenth of the price in thousandths (49.99,
\* in thousandths 49990, becomes 4999)
PriceInMinorUnits ==
  [][ Len(queue') > Len(queue)
        => LET row == queue'[Len(queue')]
           IN  /\ (row.price_cents = None) <=> (candidate.price = None)
               /\ candidate.price # None
                    => /\ Get(row.price_cents) * 10 = Get(candidate.price)
                       /\ (Get(candidate.price) = 49990 => row.price_cents = Some(4999)) ]_vars

\* C22 witness: the queue holds a row with the price 4999 from the candidate
\* priced 49.99 and a row without a price from a candidate without one
PricedAndUnpricedRows ==
  /\ Tee.price = Some(49990) /\ Hat.price = None
  /\ \E i \in RowIds : queue[i].item_name = Tee.item_name /\ queue[i].price_cents = Some(4999)
  /\ \E i \in RowIds : queue[i].item_name = Hat.item_name /\ queue[i].price_cents = None

\* C23: when a scan completes and the cursor advances, every message of the
\* mailbox that matches the scan's window was handed to the pipeline, however
\* many messages match.
AllMatchingHandedOver ==
  \A k \in 1..Len(history) :
    \A e \in matching(mailbox[history[k].user], history[k].after_day) :
      \E j \in 1..Len(history[k].emails) :
        history[k].emails[j].message_id = e.message_id

\* the recompute of a scan ran and did not raise in this step
recompute_step == scan.pc = "analytics" /\ scan'.pc = "cursor" /\ ~scan'.analytics_failed

\* C24: a recompute for a user none of whose rows is non-rejected changes
\* nothing: it creates no analytics record and leaves an existing one as it was
RecomputeWithoutItemsIsNoOp ==
  [][(recompute_step /\ analytics_items(queue, scan.user) = <<>>)
       => analytics' = analytics]_vars

\* C24 witness: a recompute has run for a user who has an analytics record
\* and whose rows are all rejected
RecomputedWithOnlyRejectedRows ==
  /\ scan.pc = "cursor" /\ ~scan.analytics_failed
  /\ analytics_items(queue, scan.user) = <<>>
  /\ analytics[scan.user] # None
  /\ \E i \in RowIds : queue[i].user_id = scan.user

\* the purchase dates of u's rows that are not rejected and carry a date
purchase_dates(u) ==
  {Get(queue[i].purchased_at) :
     i \in {k \in RowIds : queue[k].user_id = u /\ queue[k].status # "rejected"
                             /\ queue[k].purchased_at # None}}

\* date a is not later than date b
not_later(a, b) ==
  \/ a[1] < b[1]
  \/ a[1] = b[1] /\ a[2] < b[2]
  \/ a[1] = b[1] /\ a[2] = b[2] /\ a[3] <= b[3]

\* C25: after a recompute the first and last purchase timestamps of the
\* record are the earliest and the latest purchase date of the user's
\* non-rejected rows that carry one, and null when no such row carries a date
PurchaseSpanRecomputed ==
  \A u \in Users :
    recomputed(u)
      => LET D == purchase_dates(u)
             a == Get(analytics[u])
         IN  IF D = {}
             THEN a.first_purchase_at = None /\ a.last_purchase_at = None
             ELSE /\ a.first_purchase_at # None /\ a.last_purchase_at # None
                  /\ Get(a.first_purchase_at) \in D
                  /\ Get(a.last_purchase_at) \in D
                  /\ \A d \in D : /\ not_later(Get(a.first_purchase_at), d)
                                  /\ not_later(d, Get(a.last_purchase_at))

\* the place of the first of the rows rs whose key is k
first_row(rs, key(_), k) ==
  CHOOSE i \in 1..Len(rs) : key(rs[i]) = k /\ \A j \in 1..(i - 1) : key(rs[j]) # k

\* name is a key of d with the largest value, amount is that value, and of
\* the keys with that value name is the one the rows rs meet first
is_top(name, amount, d, rs, key(_)) ==
  /\ name \in DictKeys(d)
  /\ amount = DictGet(d, name, 0)
  /\ \A k \in DictKeys(d) :
       /\ DictGet(d, k, 0) <= amount
       /\ DictGet(d, k, 0) = amount => first_row(rs, key, name) <= first_row(rs, key, k)

\* the keys of d that carry its largest value
top_keys(d) == {k \in DictKeys(d) : \A j \in DictKeys(d) : DictGet(d, j, 0) <= DictGet(d, k, 0)}

\* C26: after a recompute each of the four top facets names a key of its map
\* with the largest value, the stored amount is that value, and among keys
\* that tie the one met first in the order of the rows is named
TopFacetsAreMaxima ==
  \A u \in Users :
    recomputed(u)
      => LET rs == SelectSeq(queue, LAMBDA r : r.user_id = u /\ r.status # "rejected")
             a == Get(analytics[u])
         IN  /\ is_top(a.frequent_merchant, a.frequent_merchant_amount,
                       a.merchant_freq_json, rs, merchant_or_unknown)
             /\ is_top(a.most_spent_merchant, a.most_spent_merchant_amount,
                       a.merchant_spending_json, rs, merchant_or_unknown)
             /\ is_top(a.frequent_category, a.frequent_category_amount,
                       a.category_freq_json, rs, category_or_other)
             /\ is_top(a.most_spent_category, a.most_spent_category_amount,
                       a.category_spending_json, rs, category_or_other)

\* C26 witness: a recompute has run with two keys tied for the largest count
\* of a map and another map with a single largest value among several keys
RecomputedWithTie ==
  \E u \in Users :
    /\ recomputed(u)
    /\ Cardinality(top_keys(Get(analytics[u]).category_freq_json)) >= 2
    /\ \E d \in {Get(analytics[u]).merchant_spending_json,
                 Get(analytics[u]).category_spending_json} :
         Len(d) >= 2 /\ Cardinality(top_keys(d)) = 1

\* C27: an approve or a reject by a user of a row that belongs to another
\* user answers 404, leaves the queue unchanged and creates no wardrobe item;
\* every row a scan inserts carries the scanning user's id, and a scan skips
\* an email at the email-level check exactly when the scanning user himself
\* has a row with its message id, whatever rows other users have
UsersAreIsolated ==
  /\ [][\A u \in Users, item_id \in RowIds :
          (/\ queue[item_id].user_id # u
           /\ \/ \E body \in Bodies : approve_item(u, item_id, body)
              \/ reject_item(u, item_id))
            => resp'.code = 404 /\ queue' = queue /\ items' = items]_vars
  /\ [][\A i \in (Len(queue) + 1)..Len(queue') : queue'[i].user_id = scan.user]_vars
  /\ [][process_email
          => (scan'.skipped_duplicates > scan.skipped_duplicates
                <=> \E i \in RowIds :
                      /\ queue[i].user_id = scan.user
                      /\ queue[i].email_message_id
                           = Some(scan.emails[scan.idx].message_id))]_vars

\* C27 witness: a scan has inserted a row for a message of which another
\* user already had a row
TwoUsersSameMessage ==
  \E i \in RowIds, j \in RowIds :
    /\ i < j
    /\ queue[i].user_id # queue[j].user_id
    /\ queue[i].email_message_id = queue[j].email_message_id
    /\ j \in scan.inserted_ids

\* the row is one a scan of user u inserts for the message msg_id
fresh_row(r, u, msg_id) ==
  /\ r.status = "pending" /\ r.source = "gmail"
  /\ r.user_id = u /\ r.email_message_id = Some(msg_id)

\* C28: a scan that completes reports as queued_count the number of rows it
\* added to the queue and as scanned_messages the number of emails the fetch
\* returned; every row it adds is pending, of source 'gmail', carries the
\* scanning user's id and the message id of the email it came from
ScanReportsWhatItDid ==
  /\ [][save_settings
          => /\ resp'.code = 200
             /\ resp'.counts.queued_count = Len(queue) - scan.rows_before
             /\ resp'.counts.scanned_messages = Len(scan.emails)
             /\ \A i \in (scan.rows_before + 1)..Len(queue) :
                  \E j \in 1..Len(scan.emails) :
                    fresh_row(queue[i], scan.user, scan.emails[j].message_id)]_vars
  /\ [][\A i \in (Len(queue) + 1)..Len(queue') :
          /\ scan.pc = "items"
          /\ fresh_row(queue'[i], scan.user, scan.emails[scan.idx].message_id)]_vars

\* C28 witness: a scan has completed that was handed two emails, counted a
\* duplicate and added at least one row
ScanCompletedWithSkipAndRow ==
  /\ resp.op \in {"scan_initial", "scan_new"} /\ resp.code = 200
  /\ resp.counts.scanned_messages = 2
  /\ resp.counts.skipped_duplicates >= 1
  /\ resp.counts.queued_count >= 1

\* the wardrobe items created from queue row i
items_of(i) == {k \in 1..Len(items) : items[k].review_id = i}

\* C29: however two approve requests for the same pending row (or an approve
\* and a reject) interleave, at most one wardrobe item is created from the
\* row, an approved row has its item and a pending row has none
ApprovedAtMostOnce ==
  \A i \in RowIds :
    /\ Cardinality(items_of(i)) <= 1
    /\ queue[i].status = "approved" => items_of(i) # {}
    /\ queue[i].status = "pending" => items_of(i) = {}

\* the columns of a queue row other than its status
kept_columns(r) == DOMAIN r \ {"status"}

\* C30: a successful approve assigns 'approved' to the status of its queue
\* row and changes nothing else of the queue, overrides or not: the name, the
\* category, the price, the merchant and the message id of the row stay as
\* stored and the overrides go to the wardrobe item; a later recompute sums
\* the prices stored in the queue
ApproveChangesOnlyStatus ==
  /\ [][\A u \in Users, item_id \in RowIds, body \in Bodies :
          (approve_item(u, item_id, body) /\ resp'.code = 200)
            => /\ Len(queue') = Len(queue)
               /\ queue'[item_id].status = "approved"
               /\ \A i \in RowIds :
                    /\ i # item_id => queue'[i] = queue[i]
                    /\ DOMAIN queue'[i] = DOMAIN queue[i]
                    /\ \A c \in kept_columns(queue[i]) : queue'[i][c] = queue[i][c]
               /\ Len(items') = Len(items) + 1
               /\ items'[Len(items')].price_cents
                    = IF OrInt(body.edited_price_cents, None) # None
                      THEN body.edited_price_cents ELSE queue[item_id].price_cents]_vars
  /\ [](\A u \in Users :
          recomputed(u)
            => Get(analytics[u]).total_spending_cents
                 = total_price(SelectSeq(queue, LAMBDA r : r.user_id = u
                                                            /\ r.status # "rejected")))

\* C30 witness: a recompute has run over an approved row whose wardrobe item
\* carries an override price other than the price stored in the row
RecomputedAfterOverride ==
  \E u \in Users, k \in 1..Len(items) :
    /\ recomputed(u)
    /\ items[k].user_id = u
    /\ items[k].body.edited_price_cents # None
    /\ queue[items[k].review_id].status = "approved"
    /\ queue[items[k].review_id].price_cents # None
    /\ items[k].price_cents # queue[items[k].review_id].price_cents

====
